---- MODULE Spec2Model ----
(***************************************************************************)
(* Model of the Standard MIDI File validator core of midi_file_tester.py:  *)
(* Reader, read_vlq, validate_division, parse_header, parse_track and      *)
(* validate_midi_file.  One behaviour is one call of validate_midi_file on *)
(* one byte buffer with one choice of the flags pair_notes and strict.     *)
(* Bytes are integers 0..255; hexadecimal values of the source are written *)
(* in decimal with the hexadecimal value in a comment.                     *)
(***************************************************************************)
EXTENDS Integers, Sequences, FiniteSets, TLC

VARIABLES
    data,         \* the bytes read from the file (validate_midi_file, line 232)
    pair_notes,   \* flag of validate_midi_file
    strict,       \* flag of validate_midi_file
    pc,           \* position in validate_midi_file: "start", "tracks", "scan", "done"
    pos,          \* r.pos of the file-level Reader
    bytes_size,   \* FileReport.bytes_size
    header,       \* FileReport.header (NoHeader models None)
    errors,       \* FileReport.error_locs, one entry per FileReport.errors entry
    warnings,     \* FileReport.warning_locs
    tracks,       \* FileReport.tracks
    ok,           \* FileReport.ok
    t,            \* loop counter of validate_midi_file
    tr,           \* the TrackReport parse_track is building
    start,        \* parse_track: start
    end,          \* parse_track: end (clamped)
    lpos,         \* parse_track: local.pos
    status,       \* parse_track: running status (NoStatus models None)
    active,       \* parse_track: the dict active, (channel, pitch) -> count
    brk,          \* parse_track: the scan loop was left by a break
    raised        \* number of exceptions raised (and caught) so far

vars == <<data, pair_notes, strict, pc, pos, bytes_size, header, errors, warnings,
          tracks, ok, t, tr, start, end, lpos, status, active, brk, raised>>

(***************************************************************************)
(* Bounds of the model.                                                    *)
(***************************************************************************)
\* most events (pieces) in the body of the track of a one-track input
MaxEvents == 2
\* most track chunks in an input, and largest declared track count
MaxTracks == 2

(***************************************************************************)
(* Data model.                                                             *)
(***************************************************************************)
MAGIC_MTHD == <<77, 84, 104, 100>>   \* b"MThd"
MAGIC_MTRK == <<77, 84, 114, 107>>   \* b"MTrk"

NoHeader == [format_type |-> -1, num_tracks |-> -1, division |-> -1]
NoStatus == -1

MIDIHeader(fmt, ntr, div) == [format_type |-> fmt, num_tracks |-> ntr, division |-> div]

TrackStats ==
    [note_on |-> 0, note_off |-> 0, dangling_notes |-> 0, program_changes |-> 0,
     controllers |-> 0, pitch_bends |-> 0, aftertouch_poly |-> 0, aftertouch_ch |-> 0,
     sysex |-> 0, meta |-> 0, tempo_events |-> 0, time_sig_events |-> 0,
     key_sig_events |-> 0, tempo_values |-> <<>>]

TrackReport(tindex) ==
    [index |-> tindex, length_declared |-> 0, length_parsed |-> 0,
     has_end_of_track |-> FALSE, errors |-> <<>>, warnings |-> <<>>,
     stats |-> TrackStats]

\* one entry of error_locs / warning_locs: the message (by kind) and its offset
Diag(kind, off) == [kind |-> kind, off |-> off]

_err(r, kind, abs_off) == [r EXCEPT !.errors = Append(@, Diag(kind, abs_off))]
_warn(r, kind, abs_off) == [r EXCEPT !.warnings = Append(@, Diag(kind, abs_off))]

read_uint16_be(b) == b[1] * 256 + b[2]
read_uint32_be(b) == b[1] * 16777216 + b[2] * 65536 + b[3] * 256 + b[4]

\* Reader.read(n) at position p of buffer buf: the bytes, or <<>> with ok = FALSE
\* for EOFError (the position is then unchanged)
Reader_read(buf, p, n) ==
    IF p + n > Len(buf) THEN [ok |-> FALSE, out |-> <<>>, pos |-> p]
    ELSE [ok |-> TRUE, out |-> SubSeq(buf, p + 1, p + n), pos |-> p + n]

\* the loop of read_vlq with the accumulator shifted by 8 bits
RECURSIVE vlq_loop_shift8(_, _, _, _)
vlq_loop_shift8(buf, p, val, k) ==
    IF k = 4 THEN [ok |-> FALSE, val |-> val, pos |-> p, exc |-> "ValueError"]
    ELSE IF p + 1 > Len(buf) THEN [ok |-> FALSE, val |-> val, pos |-> p, exc |-> "EOFError"]
    ELSE LET byte == buf[p + 1]
             v == val * 256 + (byte % 128)
         IN IF byte < 128 THEN [ok |-> TRUE, val |-> v, pos |-> p + 1, exc |-> "none"]
            ELSE vlq_loop_shift8(buf, p + 1, v, k + 1)

\* the loop of read_vlq, lines 94-99: k bytes were read, val is the accumulator
RECURSIVE vlq_loop(_, _, _, _)
vlq_loop(buf, p, val, k) ==
    IF k = 4 THEN [ok |-> FALSE, val |-> val, pos |-> p, exc |-> "ValueError"]
    ELSE IF p + 1 > Len(buf) THEN [ok |-> FALSE, val |-> val, pos |-> p, exc |-> "EOFError"]
    ELSE LET byte == buf[p + 1]
             v == val * 128 + (byte % 128)
         IN IF byte < 128 THEN [ok |-> TRUE, val |-> v, pos |-> p + 1, exc |-> "none"]
            ELSE vlq_loop(buf, p + 1, v, k + 1)

\* read_vlq on a Reader over buf at position p
read_vlq(buf, p) == vlq_loop(buf, p, 0, 0)

(***************************************************************************)
(* Header Decoder.  A parse result carries the header, the reader position *)
(* and the diagnostics appended to the FileReport.                         *)
(***************************************************************************)
HResult(h, p, errs, warns, exc) ==
    [header |-> h, pos |-> p, errors |-> errs, warnings |-> warns, raised |-> exc]

\* validate_division: the report r (its errors and warnings) after the checks
validate_division(div, r) ==
    IF div >= 32768                                   \* div & 0x8000
    THEN LET hi == (div \div 256) % 256
             fps == IF hi >= 128 THEN 256 - hi ELSE 0 - hi
             tpf == div % 256
             r1 == IF fps \notin {24, 25, 29, 30} THEN _warn(r, "SmpteFpsUnusual", 0) ELSE r
         IN IF tpf = 0 THEN _err(r1, "TicksPerFrameZero", 0) ELSE r1
    ELSE IF div <= 0 THEN _err(r, "PpqnNotPositive", 0) ELSE r

\* the header fields with an unknown format treated as fatal
parse_header_fields_fatal(buf, hlen, hb, p) ==
    LET fmt == read_uint16_be(SubSeq(hb, 1, 2))
        ntr == read_uint16_be(SubSeq(hb, 3, 4))
        div == read_uint16_be(SubSeq(hb, 5, 6))
    IN IF fmt \notin {0, 1, 2}
       THEN HResult(NoHeader, p, <<Diag("UnknownFormat", p)>>, <<>>, 0)
       ELSE LET r2 == IF ntr = 0 THEN _err([errors |-> <<>>, warnings |-> <<>>], "ZeroTracks", p)
                      ELSE [errors |-> <<>>, warnings |-> <<>>]
                r3 == validate_division(div, r2)
            IN HResult(MIDIHeader(fmt, ntr, div), p + (IF hlen > 6 THEN hlen - 6 ELSE 0),
                       r3.errors, r3.warnings, 0)

\* the body of parse_header after the 6 fixed bytes hb were read at position p
\* (p is r.tell() after the 6 bytes), lines 125-133
parse_header_fields(buf, hlen, hb, p) ==
    LET fmt == read_uint16_be(SubSeq(hb, 1, 2))
        ntr == read_uint16_be(SubSeq(hb, 3, 4))
        div == read_uint16_be(SubSeq(hb, 5, 6))
        extra == IF hlen > 6 THEN Reader_read(buf, p, hlen - 6)
                 ELSE [ok |-> TRUE, out |-> <<>>, pos |-> p]
    IN IF ~extra.ok
       THEN HResult(NoHeader, p, <<Diag("HeaderException", p)>>, <<>>, 1)
       ELSE LET q == extra.pos
                r0 == [errors |-> <<>>,
                       warnings |-> IF hlen > 6 THEN <<Diag("HeaderLength", q)>> ELSE <<>>]
                r1 == IF fmt \notin {0, 1, 2} THEN _err(r0, "UnknownFormat", q) ELSE r0
                r2 == IF ntr = 0 THEN _err(r1, "ZeroTracks", q) ELSE r1
                r3 == validate_division(div, r2)
            IN HResult(MIDIHeader(fmt, ntr, div), q, r3.errors, r3.warnings, 0)

\* parse_header after the tag, lines 121-133, the Reader at position 4
parse_header_chunk(buf) ==
    LET lenb == Reader_read(buf, 4, 4)
    IN IF ~lenb.ok THEN HResult(NoHeader, 4, <<Diag("HeaderException", 4)>>, <<>>, 1)
       ELSE LET hlen == read_uint32_be(lenb.out)
            IN IF hlen < 6
               THEN HResult(NoHeader, 8, <<Diag("HeaderTooShort", 8)>>, <<>>, 0)
               ELSE LET hb == Reader_read(buf, 8, 6)
                    IN IF ~hb.ok
                       THEN HResult(NoHeader, 8, <<Diag("HeaderException", 8)>>, <<>>, 1)
                       ELSE parse_header_fields(buf, hlen, hb.out, 14)

\* parse_header with the tag mismatch recorded and the decoding carried on
parse_header_lenient(buf) ==
    LET tag == Reader_read(buf, 0, 4)
        h == parse_header_chunk(buf)
    IN IF ~tag.ok THEN HResult(NoHeader, 0, <<Diag("HeaderException", 0)>>, <<>>, 1)
       ELSE IF tag.out # MAGIC_MTHD
       THEN HResult(h.header, h.pos, <<Diag("NoMThd", 0)>> \o h.errors, h.warnings, h.raised)
       ELSE h

\* parse_header on a Reader over buf at position 0, lines 116-136
parse_header(buf) ==
    LET tag == Reader_read(buf, 0, 4)
    IN IF ~tag.ok THEN HResult(NoHeader, 0, <<Diag("HeaderException", 0)>>, <<>>, 1)
       ELSE IF tag.out # MAGIC_MTHD THEN HResult(NoHeader, 4, <<Diag("NoMThd", 0)>>, <<>>, 0)
       ELSE parse_header_chunk(buf)

(***************************************************************************)
(* Event Decoder: one iteration of the scan loop of parse_track.           *)
(* buf is local.data (the slice r.data[start:end]), p a position in it, s  *)
(* the absolute offset start, st the running status, act the dict active.  *)
(* A step result carries the track report, local.pos, the running status,  *)
(* the dict, whether the loop was left by break, and the exceptions raised.*)
(***************************************************************************)
SResult(r, p, st, act, b, exc) ==
    [tr |-> r, lpos |-> p, status |-> st, active |-> act, brk |-> b, raised |-> exc]

bump(r, counter) == [r EXCEPT !.stats[counter] = @ + 1]

max(a, b) == IF a >= b THEN a ELSE b

\* active.get(key, 0)
active_get(act, key) == IF key \in DOMAIN act THEN act[key] ELSE 0

\* active[key] = n
active_set(act, key, n) == [k \in (DOMAIN act) \cup {key} |-> IF k = key THEN n ELSE act[k]]

\* the decrement without the clamp
note_release_unclamped(act, key) == active_set(act, key, active_get(act, key) - 1)

\* Note-Off bookkeeping, lines 171 and 177: decrement, clamped at zero
note_release(act, key) == active_set(act, key, max(0, active_get(act, key) - 1))

\* Note-On bookkeeping, line 181
note_press(act, key) == active_set(act, key, active_get(act, key) + 1)

\* _check_data_range: one error for the first value above 127
_check_data_range(vals, r, abs_off) ==
    IF \E i \in 1..Len(vals) : vals[i] > 127 THEN _err(r, "DataRange", abs_off) ELSE r

\* channel voice message dl data bytes read: statistics and note pairing, lines 168-186
channel_stats(r, act, pair, mt, ch, d) ==
    LET key == <<ch, d[1]>>
    IN CASE mt = 128 ->                                       \* 0x80 Note-Off
              [tr |-> bump(r, "note_off"),
               active |-> IF pair THEN note_release(act, key) ELSE act]
         [] mt = 144 ->                                       \* 0x90 Note-On
              LET vel == IF Len(d) = 2 THEN d[2] ELSE 0
              IN IF vel = 0
                 THEN [tr |-> bump(r, "note_off"),
                       active |-> IF pair THEN note_release(act, key) ELSE act]
                 ELSE [tr |-> bump(r, "note_on"),
                       active |-> IF pair THEN note_press(act, key) ELSE act]
         [] mt = 160 -> [tr |-> bump(r, "aftertouch_poly"), active |-> act]   \* 0xA0
         [] mt = 176 -> [tr |-> bump(r, "controllers"), active |-> act]       \* 0xB0
         [] mt = 192 -> [tr |-> bump(r, "program_changes"), active |-> act]   \* 0xC0
         [] mt = 208 -> [tr |-> bump(r, "aftertouch_ch"), active |-> act]     \* 0xD0
         [] mt = 224 -> [tr |-> bump(r, "pitch_bends"), active |-> act]       \* 0xE0
         [] OTHER -> [tr |-> r, active |-> act]

\* status 0x80..0xEF, lines 163-186
channel_event(r, buf, s, p, st, act, pair) ==
    LET ch == st % 16
        mt == (st \div 16) * 16
        dl == IF mt \in {192, 208} THEN 1 ELSE 2
    IN IF Len(buf) - p < dl
       THEN SResult(_err(r, "InsufficientData", s + p), p, st, act, TRUE, 0)
       ELSE LET d == SubSeq(buf, p + 1, p + dl)
                q == p + dl
                r1 == _check_data_range(d, r, s + q - dl)
                c == channel_stats(r1, act, pair, mt, ch, d)
            IN SResult(c.tr, q, st, c.active, FALSE, 0)

\* Set-Tempo with the upper limit of the range excluded
tempo_event_exclusive(r, md, s, q, strict_) ==
    LET us == md[1] * 65536 + md[2] * 256 + md[3]
        r1 == [bump(r, "tempo_events") EXCEPT !.stats.tempo_values = Append(@, us)]
    IN IF strict_ /\ ~(10000 <= us /\ us < 2000000)
       THEN _warn(r1, "TempoUnusual", s + q - 3)
       ELSE r1

\* Set-Tempo with its 3 data bytes md read up to position q, lines 203-204
tempo_event(r, md, s, q, strict_) ==
    LET us == md[1] * 65536 + md[2] * 256 + md[3]
        r1 == [bump(r, "tempo_events") EXCEPT !.stats.tempo_values = Append(@, us)]
    IN IF strict_ /\ ~(10000 <= us /\ us <= 2000000)
       THEN _warn(r1, "TempoUnusual", s + q - 3)
       ELSE r1

\* the meta events with a scan that goes on after End-of-Track
meta_dispatch_no_break(r, buf, s, q, st, act, meta, ln, md, strict_) ==
    CASE meta = 47 ->                                                  \* 0x2F
           LET r1 == IF ln # 0 THEN _err(r, "EndOfTrackLength", s + q - ln) ELSE r
               r2 == [r1 EXCEPT !.has_end_of_track = TRUE]
           IN SResult(r2, q, st, act, FALSE, 0)
      [] meta = 81 ->                                                  \* 0x51
           IF ln # 3 THEN SResult(_err(r, "TempoLength", s + q - ln), q, st, act, FALSE, 0)
           ELSE SResult(tempo_event(r, md, s, q, strict_), q, st, act, FALSE, 0)
      [] meta = 88 ->                                                  \* 0x58
           IF ln # 4 THEN SResult(_err(r, "TimeSigLength", s + q - ln), q, st, act, FALSE, 0)
           ELSE LET r1 == IF md[1] = 0 \/ md[2] > 7
                          THEN _warn(r, "TimeSigUnusual", s + q - 4) ELSE r
                IN SResult(bump(r1, "time_sig_events"), q, st, act, FALSE, 0)
      [] meta = 89 ->                                                  \* 0x59
           IF ln # 2 THEN SResult(_err(r, "KeySigLength", s + q - ln), q, st, act, FALSE, 0)
           ELSE SResult(bump(r, "key_sig_events"), q, st, act, FALSE, 0)
      [] OTHER -> SResult(r, q, st, act, FALSE, 0)

\* the meta events with the bytes after End-of-Track left unread
meta_dispatch_keep_pos(r, buf, s, q, st, act, meta, ln, md, strict_) ==
    CASE meta = 47 ->                                                  \* 0x2F
           LET r1 == IF ln # 0 THEN _err(r, "EndOfTrackLength", s + q - ln) ELSE r
               r2 == [r1 EXCEPT !.has_end_of_track = TRUE]
           IN IF Len(buf) - q > 0
              THEN SResult(_warn(r2, "ExtraAfterEndOfTrack", s + q), q, st, act, TRUE, 0)
              ELSE SResult(r2, q, st, act, FALSE, 0)
      [] meta = 81 ->                                                  \* 0x51
           IF ln # 3 THEN SResult(_err(r, "TempoLength", s + q - ln), q, st, act, FALSE, 0)
           ELSE SResult(tempo_event(r, md, s, q, strict_), q, st, act, FALSE, 0)
      [] meta = 88 ->                                                  \* 0x58
           IF ln # 4 THEN SResult(_err(r, "TimeSigLength", s + q - ln), q, st, act, FALSE, 0)
           ELSE LET r1 == IF md[1] = 0 \/ md[2] > 7
                          THEN _warn(r, "TimeSigUnusual", s + q - 4) ELSE r
                IN SResult(bump(r1, "time_sig_events"), q, st, act, FALSE, 0)
      [] meta = 89 ->                                                  \* 0x59
           IF ln # 2 THEN SResult(_err(r, "KeySigLength", s + q - ln), q, st, act, FALSE, 0)
           ELSE SResult(bump(r, "key_sig_events"), q, st, act, FALSE, 0)
      [] OTHER -> SResult(r, q, st, act, FALSE, 0)

\* the meta types interpreted after the data md (ln bytes) was read up to q,
\* lines 194-213; End-of-Track with bytes left reads them all and breaks
meta_dispatch(r, buf, s, q, st, act, meta, ln, md, strict_) ==
    CASE meta = 47 ->                                                  \* 0x2F
           LET r1 == IF ln # 0 THEN _err(r, "EndOfTrackLength", s + q - ln) ELSE r
               r2 == [r1 EXCEPT !.has_end_of_track = TRUE]
           IN IF Len(buf) - q > 0
              THEN SResult(_warn(r2, "ExtraAfterEndOfTrack", s + q), Len(buf), st, act, TRUE, 0)
              ELSE SResult(r2, q, st, act, FALSE, 0)
      [] meta = 81 ->                                                  \* 0x51
           IF ln # 3 THEN SResult(_err(r, "TempoLength", s + q - ln), q, st, act, FALSE, 0)
           ELSE SResult(tempo_event(r, md, s, q, strict_), q, st, act, FALSE, 0)
      [] meta = 88 ->                                                  \* 0x58
           IF ln # 4 THEN SResult(_err(r, "TimeSigLength", s + q - ln), q, st, act, FALSE, 0)
           ELSE LET r1 == IF md[1] = 0 \/ md[2] > 7
                          THEN _warn(r, "TimeSigUnusual", s + q - 4) ELSE r
                IN SResult(bump(r1, "time_sig_events"), q, st, act, FALSE, 0)
      [] meta = 89 ->                                                  \* 0x59
           IF ln # 2 THEN SResult(_err(r, "KeySigLength", s + q - ln), q, st, act, FALSE, 0)
           ELSE SResult(bump(r, "key_sig_events"), q, st, act, FALSE, 0)
      [] OTHER -> SResult(r, q, st, act, FALSE, 0)

\* status 0xFF, lines 187-213
meta_event(r, buf, s, p, st, act, strict_) ==
    IF Len(buf) - p < 2
    THEN SResult(_err(r, "MetaTruncated", s + p), p, st, act, TRUE, 0)
    ELSE LET meta == buf[p + 1]
             v == read_vlq(buf, p + 1)
         IN IF ~v.ok
            THEN SResult(_err(r, "MetaVLQ", s + v.pos), v.pos, st, act, TRUE, 1)
            ELSE IF Len(buf) - v.pos < v.val
            THEN SResult(_err(r, "MetaDataTruncated", s + v.pos), v.pos, st, act, TRUE, 0)
            ELSE LET ln == v.val
                     md == SubSeq(buf, v.pos + 1, v.pos + ln)
                     q == v.pos + ln
                 IN meta_dispatch(bump(r, "meta"), buf, s, q, st, act, meta, ln, md, strict_)

\* a system-exclusive event whose bad length ends the scan without a diagnostic
sysex_event_silent(r, buf, s, p, st, act) ==
    LET v == read_vlq(buf, p)
    IN IF ~v.ok
       THEN SResult(r, v.pos, st, act, TRUE, 1)
       ELSE IF Len(buf) - v.pos < v.val
       THEN SResult(_err(r, "SysExTruncated", s + v.pos), v.pos, st, act, TRUE, 0)
       ELSE SResult(bump(r, "sysex"), v.pos + v.val, st, act, FALSE, 0)

\* status 0xF0 / 0xF7, lines 214-218
sysex_event(r, buf, s, p, st, act) ==
    LET v == read_vlq(buf, p)
    IN IF ~v.ok
       THEN SResult(_err(r, "SysExVLQ", s + v.pos), v.pos, st, act, TRUE, 1)
       ELSE IF Len(buf) - v.pos < v.val
       THEN SResult(_err(r, "SysExTruncated", s + v.pos), v.pos, st, act, TRUE, 0)
       ELSE SResult(bump(r, "sysex"), v.pos + v.val, st, act, FALSE, 0)

\* dispatch on the status st with local.pos = p, lines 162-220
dispatch(r, buf, s, p, st, act, pair, strict_) ==
    IF st = NoStatus THEN SResult(_err(r, "StatusUndefined", s + p), p, st, act, TRUE, 0)
    ELSE IF 128 <= st /\ st <= 239 THEN channel_event(r, buf, s, p, st, act, pair)
    ELSE IF st = 255 THEN meta_event(r, buf, s, p, st, act, strict_)
    ELSE IF st \in {240, 247} THEN sysex_event(r, buf, s, p, st, act)
    ELSE SResult(_err(r, "UnknownStatus", s + p), p, st, act, TRUE, 0)

\* one iteration of the scan loop in which a data byte is not pushed back under the
\* running status
scan_event_no_pushback(r, buf, s, p, st, act, pair, strict_) ==
    LET ev_start == p
        v == read_vlq(buf, p)
    IN IF ~v.ok
       THEN SResult(_err(r, "InvalidVLQ", s + ev_start), v.pos, st, act, TRUE, 1)
       ELSE IF Len(buf) - v.pos <= 0
       THEN SResult(r, v.pos, st, act, TRUE, 0)
       ELSE LET b == buf[v.pos + 1]
                q == v.pos + 1
            IN IF b >= 128
               THEN dispatch(r, buf, s, q, b, act, pair, strict_)
               ELSE IF st = NoStatus
               THEN SResult(_err(r, "RunningStatusWithoutPrior", s + q - 1), q, st, act, TRUE, 0)
               ELSE dispatch(r, buf, s, q, st, act, pair, strict_)

\* one iteration of the scan loop that starts the event again when its delta-time
\* cannot be read
scan_event_retry(r, buf, s, p, st, act, pair, strict_) ==
    LET ev_start == p
        v == read_vlq(buf, p)
    IN IF ~v.ok
       THEN SResult(_err(r, "InvalidVLQ", s + ev_start), ev_start, st, act, FALSE, 1)
       ELSE IF Len(buf) - v.pos <= 0
       THEN SResult(r, v.pos, st, act, TRUE, 0)
       ELSE LET b == buf[v.pos + 1]
                q == v.pos + 1
            IN IF b >= 128
               THEN dispatch(r, buf, s, q, b, act, pair, strict_)
               ELSE IF st = NoStatus
               THEN SResult(_err(r, "RunningStatusWithoutPrior", s + q - 1), q, st, act, TRUE, 0)
               ELSE dispatch(r, buf, s, q - 1, st, act, pair, strict_)

\* one iteration of the loop `while local.remaining()>0`, lines 153-220
scan_event(r, buf, s, p, st, act, pair, strict_) ==
    LET ev_start == p
        v == read_vlq(buf, p)
    IN IF ~v.ok
       THEN SResult(_err(r, "InvalidVLQ", s + ev_start), v.pos, st, act, TRUE, 1)
       ELSE IF Len(buf) - v.pos <= 0
       THEN SResult(r, v.pos, st, act, TRUE, 0)
       ELSE LET b == buf[v.pos + 1]
                q == v.pos + 1
            IN IF b >= 128                                      \* b & 0x80
               THEN dispatch(r, buf, s, q, b, act, pair, strict_)
               ELSE IF st = NoStatus
               THEN SResult(_err(r, "RunningStatusWithoutPrior", s + q - 1), q, st, act, TRUE, 0)
               ELSE dispatch(r, buf, s, q - 1, st, act, pair, strict_)

\* parse_track up to the scan loop, lines 145-151, on the file Reader at position p:
\* either the track is returned at once (returned = TRUE) or the scan begins
begin_track(buf, p, tindex) ==
    LET r == TrackReport(tindex)
        tag == Reader_read(buf, p, 4)
        lenb == Reader_read(buf, p + 4, 4)
    IN IF ~tag.ok
       THEN [returned |-> TRUE, tr |-> _err(r, "Unexpected", p), pos |-> p,
             start |-> 0, end |-> 0, raised |-> 1]
       ELSE IF tag.out # MAGIC_MTRK
       THEN [returned |-> TRUE, tr |-> _err(r, "MissingMTrk", p + 4 - 4), pos |-> p + 4,
             start |-> 0, end |-> 0, raised |-> 0]
       ELSE IF ~lenb.ok
       THEN [returned |-> TRUE, tr |-> _err(r, "Unexpected", p + 4), pos |-> p + 4,
             start |-> 0, end |-> 0, raised |-> 1]
       ELSE LET r1 == [r EXCEPT !.length_declared = read_uint32_be(lenb.out)]
                s == p + 8
                e == s + r1.length_declared
            IN IF e > Len(buf)
               THEN [returned |-> FALSE, tr |-> _err(r1, "LengthExceedsFile", s),
                     pos |-> s, start |-> s, end |-> Len(buf), raised |-> 0]
               ELSE [returned |-> FALSE, tr |-> r1, pos |-> s, start |-> s, end |-> e,
                     raised |-> 0]

\* the finished report with length_parsed taken from the length of the slice
finish_track_whole(r, s, e, p, pair) ==
    LET r1 == [r EXCEPT !.length_parsed = e - s]
        r2 == IF r1.length_parsed # r1.length_declared
              THEN _warn(r1, "LengthMismatch", e) ELSE r1
        r3 == IF ~r2.has_end_of_track THEN _err(r2, "MissingEndOfTrack", e - 1) ELSE r2
    IN IF pair THEN [r3 EXCEPT !.stats.dangling_notes = 0] ELSE r3

\* the end of parse_track with the End-of-Track test of line 223 inverted
finish_track_eot_inverted(r, s, e, p, pair) ==
    LET r1 == [r EXCEPT !.length_parsed = p]
        r2 == IF r1.length_parsed # r1.length_declared
              THEN _warn(r1, "LengthMismatch", e) ELSE r1
        r3 == IF r2.has_end_of_track THEN _err(r2, "MissingEndOfTrack", e - 1) ELSE r2
    IN IF pair THEN [r3 EXCEPT !.stats.dangling_notes = 0] ELSE r3

\* the end of parse_track with the length mismatch of line 222 recorded as an error
finish_track_mismatch_error(r, s, e, p, pair) ==
    LET r1 == [r EXCEPT !.length_parsed = p]
        r2 == IF r1.length_parsed # r1.length_declared
              THEN _err(r1, "LengthMismatch", e) ELSE r1
        r3 == IF ~r2.has_end_of_track THEN _err(r2, "MissingEndOfTrack", e - 1) ELSE r2
    IN IF pair THEN [r3 EXCEPT !.stats.dangling_notes = 0] ELSE r3

\* parse_track after the scan loop, lines 221-224: the finished report
finish_track(r, s, e, p, pair) ==
    LET r1 == [r EXCEPT !.length_parsed = p]
        r2 == IF r1.length_parsed # r1.length_declared
              THEN _warn(r1, "LengthMismatch", e) ELSE r1
        r3 == IF ~r2.has_end_of_track THEN _err(r2, "MissingEndOfTrack", e - 1) ELSE r2
    IN IF pair THEN [r3 EXCEPT !.stats.dangling_notes = 0] ELSE r3

\* the reader left where the scan stopped
finish_pos_parsed(s, e) == s + lpos

\* the reader position parse_track leaves after the scan loop, line 221
finish_pos(s, e) == e

\* len(rep.errors)+sum(len(t.errors) for t in rep.tracks), line 240
RECURSIVE sum_track_errors(_)
sum_track_errors(ts) ==
    IF ts = <<>> THEN 0 ELSE Len(Head(ts).errors) + sum_track_errors(Tail(ts))

total_err(errs, ts) == Len(errs) + sum_track_errors(ts)

\* the verdict computed from the file-level errors alone
verdict_file_only(errs, ts) == (Len(errs) = 0)

\* the verdict, line 241
verdict(errs, ts) == (total_err(errs, ts) = 0)

\* the loop condition with the track count off by one
more_tracks_inclusive(buf, p, n, h) == Len(buf) - p > 0 /\ n <= h.num_tracks

\* the loop condition of validate_midi_file, line 238
more_tracks(buf, p, n, h) == Len(buf) - p > 0 /\ n < h.num_tracks

\* local.data of the track being scanned
local == SubSeq(data, start + 1, end)

(***************************************************************************)
(* Actions: the steps of one call of validate_midi_file.                   *)
(***************************************************************************)
NoTrack == TrackReport(-1)
NoActive == <<>>

\* where the call stands: the conditions under which each step is taken
HeaderPending == pc = "start"
TrackPending == pc = "tracks" /\ more_tracks(data, pos, t, header)
TracksDone == pc = "tracks" /\ ~more_tracks(data, pos, t, header)
Scanning == pc = "scan" /\ ~brk /\ Len(local) - lpos > 0
ScanEnded == pc = "scan" /\ (brk \/ Len(local) - lpos <= 0)

scan_idle == /\ tr' = NoTrack /\ start' = 0 /\ end' = 0 /\ lpos' = 0
             /\ status' = NoStatus /\ active' = NoActive /\ brk' = FALSE

\* lines 230-237: read the buffer, decode the header, return at once without one
ParseHeader ==
    /\ HeaderPending
    /\ LET h == parse_header(data)
       IN /\ bytes_size' = Len(data)
          /\ header' = h.header
          /\ errors' = errors \o h.errors
          /\ warnings' = warnings \o h.warnings
          /\ pos' = h.pos
          /\ raised' = raised + h.raised
          /\ pc' = IF h.header = NoHeader THEN "done" ELSE "tracks"
    /\ UNCHANGED <<data, pair_notes, strict, tracks, ok, t, tr, start, end, lpos,
                   status, active, brk>>

\* lines 238-239 and 145-151: the loop condition holds and parse_track starts; a
\* track without its tag or length is returned and appended at once
BeginTrack ==
    /\ TrackPending
    /\ LET b == begin_track(data, pos, t)
       IN /\ pos' = b.pos
          /\ raised' = raised + b.raised
          /\ IF b.returned
             THEN /\ tracks' = Append(tracks, b.tr)
                  /\ t' = t + 1
                  /\ pc' = "tracks"
                  /\ scan_idle
             ELSE /\ tr' = b.tr
                  /\ start' = b.start
                  /\ end' = b.end
                  /\ lpos' = 0
                  /\ status' = NoStatus
                  /\ active' = NoActive
                  /\ brk' = FALSE
                  /\ pc' = "scan"
                  /\ UNCHANGED <<tracks, t>>
    /\ UNCHANGED <<data, pair_notes, strict, bytes_size, header, errors, warnings, ok>>

\* lines 152-220: one iteration of the scan loop
ScanEvent ==
    /\ Scanning
    /\ LET e == scan_event(tr, local, start, lpos, status, active, pair_notes, strict)
       IN /\ tr' = e.tr
          /\ lpos' = e.lpos
          /\ status' = e.status
          /\ active' = e.active
          /\ brk' = e.brk
          /\ raised' = raised + e.raised
    /\ UNCHANGED <<data, pair_notes, strict, pc, pos, bytes_size, header, errors,
                   warnings, tracks, ok, t, start, end>>

\* lines 221-227 and 239: the scan loop has ended; the report is completed, the file
\* reader is moved and the report is appended
FinishTrack ==
    /\ ScanEnded
    /\ tracks' = Append(tracks, finish_track(tr, start, end, lpos, pair_notes))
    /\ pos' = finish_pos(start, end)
    /\ t' = t + 1
    /\ pc' = "tracks"
    /\ scan_idle
    /\ UNCHANGED <<data, pair_notes, strict, bytes_size, header, errors, warnings, ok,
                   raised>>

\* lines 240-241 and 244: the loop condition fails; the verdict is computed
Aggregate ==
    /\ TracksDone
    /\ ok' = verdict(errors, tracks)
    /\ pc' = "done"
    /\ UNCHANGED <<data, pair_notes, strict, pos, bytes_size, header, errors, warnings,
                   tracks, t, tr, start, end, lpos, status, active, brk, raised>>

Next == ParseHeader \/ BeginTrack \/ ScanEvent \/ FinishTrack \/ Aggregate

(***************************************************************************)
(* Inputs: byte buffers built from a header chunk and track chunks.  Every *)
(* length field is below 2^16, so that no 32-bit value overflows.          *)
(***************************************************************************)
U32(n) == <<0, 0, n \div 256, n % 256>>
U16(n) == <<n \div 256, n % 256>>

Chunk(tag, declared, body) == tag \o U32(declared) \o body

Hdr(tag, hlen, fmt, ntr, div) == tag \o U32(hlen) \o U16(fmt) \o U16(ntr) \o U16(div)

StdHeader(ntr) == Hdr(MAGIC_MTHD, 6, IF ntr = 1 THEN 0 ELSE 1, ntr, 96)

\* events, each with its delta-time 0
NoteOn        == <<0, 144, 60, 64>>            \* 90 3C 40
NoteOnVel0    == <<0, 144, 60, 0>>             \* 90 3C 00
NoteOff       == <<0, 128, 60, 64>>            \* 80 3C 40
NoteOnOther   == <<0, 145, 61, 64>>            \* 91 3D 40
RunData       == <<0, 60, 0>>                  \* running status: 3C 00
ProgramChange == <<0, 192, 5>>                 \* C0 05
EndOfTrack    == <<0, 255, 47, 0>>             \* FF 2F 00
TextMeta      == <<0, 255, 1, 1, 65>>          \* FF 01 01 41
UnknownStatus == <<0, 248>>                    \* F8

CorePieces ==
    {NoteOn, NoteOnVel0, NoteOff, NoteOnOther, RunData, ProgramChange, EndOfTrack, TextMeta}

Tempo(b1, b2, b3) == <<0, 255, 81, 3, b1, b2, b3>>   \* FF 51 03 b1 b2 b3

ProbePieces ==
    { <<0, 176, 7, 100>>,                      \* B0 controller
      <<0, 224, 0, 64>>,                       \* E0 pitch bend
      <<0, 160, 60, 10>>,                      \* A0 polyphonic aftertouch
      <<0, 208, 10>>,                          \* D0 channel aftertouch
      <<0, 144, 60, 200>>,                     \* Note-On, velocity byte above 127
      <<0, 128, 200, 0>>,                      \* Note-Off, pitch byte above 127
      <<0, 60, 64>>,                           \* running status: 3C 40
      <<129, 0, 144, 60, 64>>,                 \* two-byte delta-time, Note-On
      <<129, 129, 129, 0, 192, 5>>,            \* four-byte delta-time, Program Change
      <<129, 129, 129, 129, 0>>,               \* delta-time of 4 continuation bytes
      <<129, 129, 129, 129, 129, 0>>,          \* delta-time of 5 continuation bytes
      <<128, 255, 129, 200, 255, 1>>,          \* 5 continuation bytes of several values
      <<255, 255, 255, 127, 192, 5>>,          \* largest four-byte delta-time, Program Change
      <<0, 240, 130, 0>>,                      \* system-exclusive length 82 00 beyond the chunk
      <<129>>,                                 \* delta-time cut by the end of the chunk
      <<0>>,                                   \* delta-time with no event
      <<0, 144, 60>>,                          \* Note-On cut after one data byte
      <<0, 255>>,                              \* meta event cut after FF
      <<0, 255, 47, 129>>,                     \* meta length cut
      <<0, 255, 81, 3, 7>>,                    \* meta data cut
      <<0, 255, 47, 1, 0>>,                    \* End-of-Track of length 1
      Tempo(7, 161, 32),                       \* 500,000
      Tempo(76, 75, 64),                       \* 5,000,000
      Tempo(0, 39, 15),                        \* 9,999
      Tempo(0, 39, 16),                        \* 10,000
      Tempo(30, 132, 128),                     \* 2,000,000
      Tempo(30, 132, 129),                     \* 2,000,001
      <<0, 255, 81, 2, 7, 161>>,               \* Set-Tempo of length 2
      <<0, 255, 81, 4, 7, 161, 32, 0>>,        \* Set-Tempo of length 4
      <<0, 255, 81, 0>>,                       \* Set-Tempo of length 0
      <<0, 255, 88, 4, 4, 2, 24, 8>>,          \* time signature 4/4
      <<0, 255, 88, 4, 0, 8, 24, 8>>,          \* time signature, nn = 0, dd = 8
      <<0, 255, 88, 2, 4, 2>>,                 \* time signature of length 2
      <<0, 255, 89, 2, 0, 0>>,                 \* key signature
      <<0, 255, 89, 1, 0>>,                    \* key signature of length 1
      <<0, 240, 1, 247>>,                      \* F0 system-exclusive
      <<0, 247, 0>>,                           \* F7 system-exclusive, empty
      <<0, 240, 5, 1>>,                        \* system-exclusive data cut
      <<0, 240, 129>>,                         \* system-exclusive length cut
      UnknownStatus }

Pieces == CorePieces \cup ProbePieces

\* the concatenations of at most n core events
RECURSIVE CoreSeqs(_)
CoreSeqs(n) ==
    IF n = 0 THEN {<<>>}
    ELSE LET S == CoreSeqs(n - 1) IN S \cup {s \o c : s \in S, c \in CorePieces}

\* track bodies of at most MaxEvents events before an optional End-of-Track: core
\* events, then any one piece
Bodies ==
    {p \o x \o e : p \in CoreSeqs(MaxEvents - 1), x \in Pieces \cup {<<>>},
                   e \in {<<>>, EndOfTrack}}

\* one-track files whose chunk declares the length of its body
InputsOneTrack == {StdHeader(1) \o Chunk(MAGIC_MTRK, Len(b), b) : b \in Bodies}

BadTag == <<77, 84, 114, 120>>   \* b"MTrx"

SmallBodies == {<<>>, EndOfTrack, NoteOn \o EndOfTrack, RunData \o EndOfTrack, UnknownStatus}

\* track chunks: the declared length right, one short or one long; a wrong tag; a
\* chunk cut inside its tag or inside its length
Chunks ==
    {Chunk(MAGIC_MTRK, Len(b) + d, b) : b \in {x \in SmallBodies : x # <<>>}, d \in {-1, 0, 1}}
    \cup {Chunk(MAGIC_MTRK, 0, <<>>), Chunk(MAGIC_MTRK, 1, <<>>),
          Chunk(BadTag, 4, EndOfTrack), <<77, 84>>, MAGIC_MTRK \o <<0, 0>>}

RECURSIVE ChunkSeqs(_)
ChunkSeqs(n) ==
    IF n = 0 THEN {<<>>}
    ELSE LET S == ChunkSeqs(n - 1) IN S \cup {s \o c : s \in S, c \in Chunks}

\* files of up to MaxTracks chunks under a header declaring up to MaxTracks tracks
InputsTracks == {StdHeader(n) \o cs : n \in 1..MaxTracks, cs \in ChunkSeqs(MaxTracks)}

\* header chunks: the standard one and its faults
Headers ==
    { StdHeader(1),
      Hdr(<<77, 84, 104, 120>>, 6, 0, 1, 96),  \* tag MThx
      Hdr(<<82, 73, 70, 70>>, 6, 0, 1, 96),    \* tag RIFF
      Hdr(MAGIC_MTHD, 5, 0, 1, 96),            \* declared length 5
      Hdr(MAGIC_MTHD, 0, 0, 1, 96),            \* declared length 0
      Hdr(MAGIC_MTHD, 7, 0, 1, 96) \o <<0>>,   \* declared length 7, one more byte
      Hdr(MAGIC_MTHD, 7, 0, 1, 96),            \* declared length 7, no more byte
      Hdr(MAGIC_MTHD, 600, 0, 1, 96),          \* declared length beyond the file
      Hdr(MAGIC_MTHD, 6, 3, 1, 96),            \* format 3
      Hdr(MAGIC_MTHD, 6, 0, 0, 96),            \* track count 0
      Hdr(MAGIC_MTHD, 6, 0, 1, 0),             \* division 0
      Hdr(MAGIC_MTHD, 6, 0, 1, 59176),         \* E7 28: SMPTE 25 fps, 40 ticks
      Hdr(MAGIC_MTHD, 6, 0, 1, 59392),         \* E8 00: SMPTE 24 fps, 0 ticks
      Hdr(MAGIC_MTHD, 6, 0, 1, 63016),         \* F6 28: SMPTE 10 fps, 40 ticks
      Hdr(MAGIC_MTHD, 6, 3, 0, 62976) }        \* format 3, no track, F6 00

\* files with each header, with and without a track; and every cut of the header
InputsHeader ==
    {h \o c : h \in Headers, c \in {<<>>, Chunk(MAGIC_MTRK, 4, EndOfTrack),
                                    Chunk(MAGIC_MTRK, 2, UnknownStatus)}}
    \cup {SubSeq(StdHeader(1), 1, k) : k \in 0..13}

Inputs == InputsHeader \cup InputsOneTrack \cup InputsTracks

Init ==
    /\ data \in Inputs
    /\ pair_notes \in BOOLEAN
    /\ strict \in BOOLEAN
    /\ pc = "start"
    /\ pos = 0
    /\ bytes_size = 0
    /\ header = NoHeader
    /\ errors = <<>>
    /\ warnings = <<>>
    /\ tracks = <<>>
    /\ ok = FALSE
    /\ t = 0
    /\ tr = NoTrack
    /\ start = 0
    /\ end = 0
    /\ lpos = 0
    /\ status = NoStatus
    /\ active = NoActive
    /\ brk = FALSE
    /\ raised = 0

Spec == Init /\ [][Next]_vars

\* the call runs on: validate_midi_file is sequential code, and whenever a step is
\* possible the interpreter takes one
FairSpec == Spec /\ WF_vars(Next)

(***************************************************************************)
(* The report as a whole.                                                  *)
(***************************************************************************)
\* the diagnostics of the report under construction: (severity, place, entry)
TrackErrors == {<<i, j>> \in (DOMAIN tracks) \X (1..8) : j <= Len(tracks[i].errors)}
TrackWarnings == {<<i, j>> \in (DOMAIN tracks) \X (1..8) : j <= Len(tracks[i].warnings)}

ErrorCount == Len(errors) + Cardinality(TrackErrors)
WarningCount == Len(warnings) + Cardinality(TrackWarnings)

Offsets ==
    {errors[i].off : i \in DOMAIN errors} \cup {warnings[i].off : i \in DOMAIN warnings}
    \cup {tracks[x[1]].errors[x[2]].off : x \in TrackErrors}
    \cup {tracks[x[1]].warnings[x[2]].off : x \in TrackWarnings}

NotMThd == Len(data) < 4 \/ SubSeq(data, 1, 4) # MAGIC_MTHD

Returned == pc = "done"

(***************************************************************************)
(* C1. The verdict ok of the returned report is true if and only if the    *)
(* number of errors, file-level and of every track, is zero; warnings do   *)
(* not enter the verdict.                                                  *)
(***************************************************************************)
C1_OkIffNoErrors == Returned => (ok <=> ErrorCount = 0)

\* a returned report with ok = TRUE that carries warnings
C1_Witness == Returned /\ ok /\ WarningCount > 0 /\ Len(tracks) > 0

(***************************************************************************)
(* C2. For a buffer whose first 4 bytes are not MThd (shorter buffers and  *)
(* the empty buffer included) the returned report has no header, no track  *)
(* report, exactly one file-level error and ok = FALSE.                    *)
(***************************************************************************)
C2_NoMThdReport ==
    (Returned /\ NotMThd) =>
        /\ header = NoHeader
        /\ tracks = <<>>
        /\ Len(errors) = 1
        /\ ok = FALSE

\* a returned report for a buffer with a wrong tag followed by a complete file
C2_Witness ==
    /\ Returned
    /\ Len(data) > 14
    /\ SubSeq(data, 1, 4) # MAGIC_MTHD
    /\ header = NoHeader

(***************************************************************************)
(* C3. Every diagnostic offset of the report, file-level and per track,    *)
(* errors and warnings, is an index into the buffer: 0 <= off < bytes_size.*)
(***************************************************************************)
C3_OffsetsInBuffer == Returned => \A off \in Offsets : 0 <= off /\ off < bytes_size

(***************************************************************************)
(* Tracks: the chunk a track report was made from.                         *)
(***************************************************************************)
Last(q) == q[Len(q)]

min(a, b) == IF a <= b THEN a ELSE b

\* a step that appends a track report
TrackAppended == Len(tracks') = Len(tracks) + 1

\* the offset of the chunk whose report a step appends: parse_track was entered there
ChunkStart == IF pc = "scan" THEN start - 8 ELSE pos

\* the chunk at offset p has its tag and its length field inside the buffer
HasLengthField(p) == p + 8 <= Len(data)

\* the end the chunk at offset p declares, clamped to the end of the buffer
DeclaredEnd(p) == min(p + 8 + read_uint32_be(SubSeq(data, p + 5, p + 8)), Len(data))

HasKind(diags, kind) == \E i \in DOMAIN diags : diags[i].kind = kind

CountKind(diags, kind) == Cardinality({i \in DOMAIN diags : diags[i].kind = kind})

(***************************************************************************)
(* C4. As claimed: after parse_track finishes a track, however it ended,   *)
(* the file reader is at the end the chunk declares, clamped to the end of *)
(* the buffer (chunks cut before the end of their length field declare no  *)
(* end and are left aside).                                                *)
(***************************************************************************)
C4_Original ==
    [][(TrackAppended /\ HasLengthField(ChunkStart)) => pos' = DeclaredEnd(ChunkStart)]_vars

(***************************************************************************)
(* C4, amended. For every track whose MTrk tag and length field were read, *)
(* however its scan ended, the file reader is left at the end the chunk    *)
(* declares, clamped to the end of the buffer, and the report carries the  *)
(* declared length; a track returned without a scan (tag mismatch, chunk   *)
(* cut inside tag or length) leaves the reader after the bytes it read.    *)
(***************************************************************************)
C4_CursorAtDeclaredEnd ==
    [][TrackAppended =>
        IF pc = "scan"
        THEN /\ pos' = DeclaredEnd(start - 8)
             /\ Last(tracks').length_declared
                    = read_uint32_be(SubSeq(data, start - 3, start))
        ELSE pos' \in {pos, pos + 4}]_vars

\* a first track whose scan was aborted before its declared end, skipped by its
\* declared length, with more of the buffer after it
C4_Witness ==
    /\ pc = "tracks"
    /\ Len(tracks) = 1
    /\ tracks[1].length_parsed < tracks[1].length_declared
    /\ HasKind(tracks[1].errors, "RunningStatusWithoutPrior")
    /\ pos = 22 + tracks[1].length_declared
    /\ pos < Len(data)

(***************************************************************************)
(* C5. As claimed: a track in which no End-of-Track is decoded yields      *)
(* exactly one error and has_end_of_track = FALSE, and its length_parsed   *)
(* is the number of bytes the scan consumed.                               *)
(***************************************************************************)
C5_Original ==
    [][(TrackAppended /\ ~Last(tracks').has_end_of_track) =>
        /\ Len(Last(tracks').errors) = 1
        /\ Last(tracks').length_parsed = (IF pc = "scan" THEN lpos ELSE 0)]_vars

(***************************************************************************)
(* C5, amended. A track in which no End-of-Track is decoded has            *)
(* has_end_of_track = FALSE and at least one error. When its tag and       *)
(* length were read, exactly one of its errors is the missing End-of-Track *)
(* error, next to the errors of the faults met, and length_parsed is the   *)
(* number of bytes the scan consumed; a track returned without a scan has  *)
(* exactly one error, none of them the missing End-of-Track error, and     *)
(* length_parsed = 0.                                                      *)
(***************************************************************************)
C5_MissingEndOfTrack ==
    [][(TrackAppended /\ ~(pc = "scan" /\ tr.has_end_of_track)) =>
        LET r == Last(tracks')
        IN /\ r.has_end_of_track = FALSE
           /\ Len(r.errors) >= 1
           /\ IF pc = "scan"
              THEN /\ CountKind(r.errors, "MissingEndOfTrack") = 1
                   /\ Len(r.errors) = Len(tr.errors) + 1
                   /\ r.length_parsed = lpos
              ELSE /\ CountKind(r.errors, "MissingEndOfTrack") = 0
                   /\ Len(r.errors) = 1
                   /\ r.length_parsed = 0]_vars

\* a scanned track without End-of-Track that carries two errors and stopped early
C5_Witness ==
    \E i \in DOMAIN tracks :
        /\ ~tracks[i].has_end_of_track
        /\ Len(tracks[i].errors) = 2
        /\ HasKind(tracks[i].errors, "MissingEndOfTrack")
        /\ 0 < tracks[i].length_parsed
        /\ tracks[i].length_parsed < tracks[i].length_declared

(***************************************************************************)
(* The header chunk as the buffer holds it.                                *)
(***************************************************************************)
\* the length the header chunk declares (the buffer has 8 bytes or more)
DeclaredHeaderLength == read_uint32_be(SubSeq(data, 5, 8))

HeaderLengthBelow6 == Len(data) >= 8 /\ DeclaredHeaderLength < 6

\* the buffer ends before the end of the header chunk it declares
HeaderCut == Len(data) < 8 \/ Len(data) < 8 + DeclaredHeaderLength

\* the three fixed fields of a complete header chunk
HeaderFormat == read_uint16_be(SubSeq(data, 9, 10))
HeaderTracks == read_uint16_be(SubSeq(data, 11, 12))
HeaderDivision == read_uint16_be(SubSeq(data, 13, 14))

HeaderDecoded == pc # "start"

(***************************************************************************)
(* C6. As claimed: parse_header produces a header for every input except   *)
(* when the tag mismatches or the declared header length is below 6.       *)
(***************************************************************************)
C6_Original == (HeaderDecoded /\ ~NotMThd /\ ~HeaderLengthBelow6) => header # NoHeader

(***************************************************************************)
(* C6, amended. parse_header produces a header for every input except when *)
(* the tag mismatches, the declared header length is below 6, or the       *)
(* buffer ends before the end of the header chunk it declares (8 bytes     *)
(* plus the declared length); every other header fault (unknown format,    *)
(* track count 0, invalid division, declared length above 6) is recorded   *)
(* as a diagnostic and the header is produced with the decoded fields.     *)
(***************************************************************************)
C6_HeaderProduced ==
    HeaderDecoded =>
        /\ (header = NoHeader) <=> (NotMThd \/ HeaderLengthBelow6 \/ HeaderCut)
        /\ header # NoHeader =>
            /\ header = MIDIHeader(HeaderFormat, HeaderTracks, HeaderDivision)
            /\ HasKind(errors, "UnknownFormat") <=> HeaderFormat \notin {0, 1, 2}
            /\ HasKind(errors, "ZeroTracks") <=> HeaderTracks = 0
            /\ HasKind(errors, "PpqnNotPositive") <=> HeaderDivision = 0
            /\ HasKind(errors, "TicksPerFrameZero")
                   <=> (HeaderDivision >= 32768 /\ HeaderDivision % 256 = 0)
            /\ HasKind(warnings, "HeaderLength") <=> DeclaredHeaderLength > 6

\* a header produced although the format, the track count and the division are faulty
C6_Witness ==
    /\ HeaderDecoded
    /\ header # NoHeader
    /\ HasKind(errors, "UnknownFormat")
    /\ HasKind(errors, "ZeroTracks")
    /\ HasKind(errors, "TicksPerFrameZero")

(***************************************************************************)
(* C7. validate_midi_file returns a report for every buffer and every flag *)
(* combination: in every state before the return a step is pending, and in *)
(* the returned report every exception raised inside (end of data,         *)
(* over-long VLQ) has its own error diagnostic, with ok = FALSE.           *)
(***************************************************************************)
ExceptionKinds == {"HeaderException", "Unexpected", "InvalidVLQ", "MetaVLQ", "SysExVLQ"}

ExceptionErrors ==
    Cardinality({i \in DOMAIN errors : errors[i].kind \in ExceptionKinds})
    + Cardinality({x \in TrackErrors : tracks[x[1]].errors[x[2]].kind \in ExceptionKinds})

C7_AlwaysReturnsReport ==
    /\ ~Returned => (HeaderPending \/ TrackPending \/ Scanning \/ ScanEnded \/ TracksDone)
    /\ Returned =>
        /\ ExceptionErrors = raised
        /\ raised > 0 => (ok = FALSE /\ ErrorCount > 0)
        /\ bytes_size = Len(data)

\* a returned report with a header and a track in which an exception was raised
C7_Witness ==
    /\ Returned
    /\ header # NoHeader
    /\ raised > 0
    /\ \E i \in DOMAIN tracks : HasKind(tracks[i].errors, "SysExVLQ")

(***************************************************************************)
(* C8. The track reports are numbered 0, 1, 2, ... in scan order without   *)
(* gaps, also after a failed track; there are never more of them than the  *)
(* header declares; and tracks are attempted until the declared count is   *)
(* reached or the buffer is exhausted.                                     *)
(***************************************************************************)
C8_TrackNumbering ==
    /\ \A i \in DOMAIN tracks : tracks[i].index = i - 1
    /\ tracks # <<>> => (header # NoHeader /\ Len(tracks) <= header.num_tracks)
    /\ (Returned /\ header # NoHeader) =>
           (Len(tracks) = header.num_tracks \/ pos >= Len(data))

\* two track reports under a header declaring two tracks, the first of a failed track
C8_Witness ==
    /\ Returned
    /\ Len(tracks) = 2
    /\ tracks[1].errors # <<>>
    /\ tracks[2].index = 1
    /\ header.num_tracks = 2

(***************************************************************************)
(* The event at the cursor of the scan, read off the bytes of the chunk.   *)
(***************************************************************************)
\* the delta-time at the cursor
CursorDelta == read_vlq(local, lpos)

\* a delta-time and one more byte are there
CursorHasEvent == Scanning /\ CursorDelta.ok /\ CursorDelta.pos < Len(local)

\* the byte after the delta-time
CursorByte == local[CursorDelta.pos + 1]

\* the status the event is dispatched under, and the position of its first data byte
CursorStatus == IF CursorByte >= 128 THEN CursorByte ELSE status
CursorData == IF CursorByte >= 128 THEN CursorDelta.pos + 1 ELSE CursorDelta.pos

\* a Note-On (0x9n) with both data bytes, the second of them 0
NoteOnVelocity0 ==
    /\ CursorHasEvent
    /\ CursorStatus \in 144..159
    /\ CursorData + 2 <= Len(local)
    /\ local[CursorData + 2] = 0

CursorKey == <<CursorStatus % 16, local[CursorData + 1]>>

(***************************************************************************)
(* C9. Every Note-On with velocity 0 adds one to the note-off counter and  *)
(* leaves the note-on counter alone; with note pairing on, the active      *)
(* count of its (channel, pitch) is decremented but not below zero, and no *)
(* other count changes; with note pairing off, no count is kept.  So every *)
(* active count is >= 0 in every state.                                    *)
(***************************************************************************)
C9_NoteOnVelocity0 ==
    /\ [](\A k \in DOMAIN active : active[k] >= 0)
    /\ [][NoteOnVelocity0 =>
            /\ tr'.stats.note_off = tr.stats.note_off + 1
            /\ tr'.stats.note_on = tr.stats.note_on
            /\ IF pair_notes
               THEN /\ DOMAIN active' = DOMAIN active \cup {CursorKey}
                    /\ active'[CursorKey] = max(0, active_get(active, CursorKey) - 1)
                    /\ \A k \in DOMAIN active : k # CursorKey => active'[k] = active[k]
               ELSE active' = active /\ active = NoActive]_vars

\* note pairing on, a Note-On with velocity 0 decoded first in its track: the count
\* of its key stays at zero
C9_Witness ==
    /\ pc = "scan"
    /\ pair_notes
    /\ Len(local) >= 4
    /\ SubSeq(local, 1, 4) = NoteOnVel0
    /\ lpos = 4
    /\ tr.stats.note_off = 1
    /\ tr.stats.note_on = 0
    /\ <<0, 60>> \in DOMAIN active
    /\ active[<<0, 60>>] = 0

(***************************************************************************)
(* C10. A Set-Tempo meta event (FF 51) whose declared length is not 3 adds *)
(* exactly one error to its track and no tempo value, whatever strict is.  *)
(* With length 3 and its data present it adds no error and records the     *)
(* 24-bit value; it adds a warning exactly when strict holds and the value *)
(* is outside [10000, 2000000]: for 5,000,000 under strict, not for        *)
(* 500,000, and never when strict = FALSE.                                 *)
(***************************************************************************)
\* a meta event of type 0x51 whose length decodes
SetTempoAtCursor ==
    /\ CursorHasEvent
    /\ CursorStatus = 255
    /\ CursorData + 2 <= Len(local)
    /\ local[CursorData + 1] = 81
    /\ read_vlq(local, CursorData + 1).ok

TempoLength == read_vlq(local, CursorData + 1).val
TempoDataAt == read_vlq(local, CursorData + 1).pos
TempoValue ==
    local[TempoDataAt + 1] * 65536 + local[TempoDataAt + 2] * 256 + local[TempoDataAt + 3]

C10_SetTempo ==
    [][SetTempoAtCursor =>
        IF TempoLength # 3
        THEN /\ Len(tr'.errors) = Len(tr.errors) + 1
             /\ tr'.stats.tempo_values = tr.stats.tempo_values
             /\ tr'.warnings = tr.warnings
        ELSE (TempoDataAt + 3 <= Len(local)) =>
             /\ tr'.errors = tr.errors
             /\ tr'.stats.tempo_values = Append(tr.stats.tempo_values, TempoValue)
             /\ tr'.stats.tempo_events = tr.stats.tempo_events + 1
             /\ IF strict /\ (TempoValue < 10000 \/ TempoValue > 2000000)
                THEN /\ Len(tr'.warnings) = Len(tr.warnings) + 1
                     /\ Last(tr'.warnings).kind = "TempoUnusual"
                ELSE tr'.warnings = tr.warnings
             /\ (strict /\ TempoValue = 5000000) => Len(tr'.warnings) = Len(tr.warnings) + 1
             /\ TempoValue = 500000 => tr'.warnings = tr.warnings]_vars

\* under strict, a track with the tempo 5,000,000 decoded and warned about
C10_Witness ==
    /\ pc = "scan"
    /\ strict
    /\ tr.stats.tempo_values = <<5000000>>
    /\ HasKind(tr.warnings, "TempoUnusual")
    /\ tr.errors = <<>>

(***************************************************************************)
(* The variable-length quantity at a position of a buffer, read off the    *)
(* bytes.                                                                  *)
(***************************************************************************)
\* the n bytes after position p are there and have their high bit set
Continuation(buf, p, n) == p + n <= Len(buf) /\ \A i \in 1..n : buf[p + i] >= 128

\* an encoding of n bytes at position p: n - 1 continuation bytes and a last byte
\* with the high bit clear
Encoding(buf, p, n) ==
    /\ p + n <= Len(buf)
    /\ \A i \in 1..(n - 1) : buf[p + i] >= 128
    /\ buf[p + n] < 128

\* the low 7 bits of the n bytes after p, the most significant first
RECURSIVE Low7(_, _, _)
Low7(buf, p, n) ==
    IF n = 0 THEN 0 ELSE Low7(buf, p, n - 1) * 128 + (buf[p + n] % 128)

VlqAsClaimed(buf, p) ==
    /\ Continuation(buf, p, 5) => ~read_vlq(buf, p).ok
    /\ \A n \in 1..4 :
           Encoding(buf, p, n) =>
               /\ read_vlq(buf, p).ok
               /\ read_vlq(buf, p).val = Low7(buf, p, n)
               /\ read_vlq(buf, p).pos = p + n

(***************************************************************************)
(* C11. read_vlq fails on 5 continuation bytes (high bit set) wherever     *)
(* they stand in the buffer; on an encoding of 1 to 4 bytes ended by a     *)
(* byte with the high bit clear it returns the low 7 bits of the bytes,    *)
(* most significant first, and consumes exactly those bytes.  Stated for   *)
(* every position of every input buffer, and for the delta-time the scan   *)
(* reads at its cursor, whose failure ends the scan with one error.        *)
(***************************************************************************)
C11_ReadVlq ==
    /\ [](HeaderPending => \A p \in 0..Len(data) : VlqAsClaimed(data, p))
    /\ [][Scanning =>
            /\ VlqAsClaimed(local, lpos)
            /\ Continuation(local, lpos, 5) =>
                   /\ brk'
                   /\ tr'.errors = Append(tr.errors, Diag("InvalidVLQ", start + lpos))
                   /\ tr'.stats = tr.stats
            /\ \A n \in 1..4 :
                   (Encoding(local, lpos, n) /\ lpos + n < Len(local)
                        /\ local[lpos + n + 1] >= 128) => status' = local[lpos + n + 1]]_vars

\* a scan ended by a delta-time of 5 continuation bytes after an event was decoded
C11_Witness ==
    /\ pc = "scan"
    /\ brk
    /\ tr.stats.note_on = 1
    /\ Continuation(local, 4, 5)
    /\ lpos = 8
    /\ HasKind(tr.errors, "InvalidVLQ")

(***************************************************************************)
(* C12. The minimal valid file: a header of format 0, one track, division  *)
(* 96 ticks per quarter note, and one track whose only event is the        *)
(* End-of-Track meta event (delta-time 00, then FF 2F 00).  Its report has *)
(* ok = TRUE, no error, no warning, one track report with has_end_of_track *)
(* and length_parsed = length_declared.                                    *)
(***************************************************************************)
MinimalFile ==
    MAGIC_MTHD \o <<0, 0, 0, 6>> \o <<0, 0>> \o <<0, 1>> \o <<0, 96>>
        \o MAGIC_MTRK \o <<0, 0, 0, 4>> \o <<0, 255, 47, 0>>

C12_MinimalFile ==
    (Returned /\ data = MinimalFile) =>
        /\ ok
        /\ errors = <<>>
        /\ warnings = <<>>
        /\ header # NoHeader
        /\ header.format_type = 0 /\ header.num_tracks = 1 /\ header.division = 96
        /\ Len(tracks) = 1
        /\ tracks[1].errors = <<>>
        /\ tracks[1].warnings = <<>>
        /\ tracks[1].has_end_of_track
        /\ tracks[1].length_parsed = tracks[1].length_declared
        /\ tracks[1].length_declared = 4

\* the report of the minimal file, under strict checks and note pairing
C12_Witness ==
    /\ Returned
    /\ data = MinimalFile
    /\ strict
    /\ pair_notes
    /\ Len(tracks) = 1
    /\ tracks[1].stats.meta = 1

(***************************************************************************)
(* C13. Running status.  A scan begins without a status.  An event whose   *)
(* first byte after the delta-time has its high bit set makes that byte    *)
(* the status.  An event whose first byte has its high bit clear is        *)
(* dispatched under the status of the most recent status byte of the same  *)
(* track, with that byte as its first data byte (a Program Change status   *)
(* counts it as the program, one byte long); without a status byte so far  *)
(* in the track, one RunningStatusWithoutPrior error is recorded at that   *)
(* byte, no counter changes, and the scan ends: the next step appends the  *)
(* report with the counters as they were.                                  *)
(***************************************************************************)
\* the counters of a report, the dangling notes (set at the end) apart
Counters(r) == [r.stats EXCEPT !.dangling_notes = 0]

C13_RunningStatus ==
    [][/\ (pc = "tracks" /\ pc' = "scan") => status' = NoStatus
       /\ (CursorHasEvent /\ CursorByte >= 128) => status' = CursorByte
       /\ (CursorHasEvent /\ CursorByte < 128 /\ status = NoStatus) =>
              /\ brk'
              /\ tr'.errors = Append(tr.errors,
                                     Diag("RunningStatusWithoutPrior", start + CursorDelta.pos))
              /\ tr'.stats = tr.stats
              /\ tr'.warnings = tr.warnings
       /\ (CursorHasEvent /\ CursorByte < 128 /\ status # NoStatus) =>
              /\ status' = status
              /\ LET d == dispatch(tr, local, start, CursorDelta.pos, status, active,
                                   pair_notes, strict)
                 IN tr' = d.tr /\ lpos' = d.lpos /\ brk' = d.brk /\ active' = d.active
              /\ status \in 192..207 =>
                     /\ tr'.stats.program_changes = tr.stats.program_changes + 1
                     /\ lpos' = CursorDelta.pos + 1
                     /\ tr'.errors = tr.errors
       /\ (pc = "scan" /\ brk) =>
              /\ TrackAppended
              /\ Counters(Last(tracks')) = Counters(tr)
              /\ Last(tracks').errors = tr.errors \/ Last(tracks').errors =
                     Append(tr.errors, Diag("MissingEndOfTrack", end - 1))]_vars

\* a second track that starts with a data byte after a first track with a Note On:
\* the status of the first track is not carried over
C13_Witness ==
    /\ Returned
    /\ Len(tracks) = 2
    /\ tracks[1].stats.note_on = 1
    /\ HasKind(tracks[2].errors, "RunningStatusWithoutPrior")
    /\ tracks[2].stats = TrackStats

\* a data byte counted as the program under a running Program Change status
C13_WitnessRunning ==
    /\ pc = "scan"
    /\ status = 192
    /\ tr.stats.program_changes = 2
    /\ tr.errors = <<>>

(***************************************************************************)
(* C14. Once End-of-Track has been decoded in a track the scan of that     *)
(* track ends: the step that decodes it leaves no byte of the chunk to     *)
(* read and records exactly one warning when bytes were left after the     *)
(* event (none otherwise); the only step after it appends the report,      *)
(* with every counter as it was and has_end_of_track still true.           *)
(***************************************************************************)
\* the event at the cursor is a meta event of type 0x2F whose data are in the chunk
EndOfTrackAtCursor ==
    /\ CursorHasEvent
    /\ CursorStatus = 255
    /\ Len(local) - CursorData >= 2
    /\ local[CursorData + 1] = 47
    /\ read_vlq(local, CursorData + 1).ok
    /\ read_vlq(local, CursorData + 1).pos + read_vlq(local, CursorData + 1).val <= Len(local)

\* the position after the data of the meta event at the cursor
MetaEnd == read_vlq(local, CursorData + 1).pos + read_vlq(local, CursorData + 1).val

C14_EndOfTrackEndsScan ==
    [][/\ EndOfTrackAtCursor =>
              /\ tr'.has_end_of_track
              /\ lpos' = Len(local)
              /\ ~Scanning'
              /\ tr'.stats = [tr.stats EXCEPT !.meta = @ + 1]
              /\ CountKind(tr'.warnings, "ExtraAfterEndOfTrack") =
                     CountKind(tr.warnings, "ExtraAfterEndOfTrack")
                         + (IF MetaEnd < Len(local) THEN 1 ELSE 0)
              /\ Len(tr'.warnings) = Len(tr.warnings) + (IF MetaEnd < Len(local) THEN 1 ELSE 0)
       /\ (pc = "scan" /\ ~tr.has_end_of_track /\ pc' = "scan" /\ tr'.has_end_of_track) =>
              EndOfTrackAtCursor
       /\ (pc = "scan" /\ tr.has_end_of_track) =>
              /\ ~Scanning
              /\ TrackAppended
              /\ Counters(Last(tracks')) = Counters(tr)
              /\ Last(tracks').has_end_of_track
              /\ CountKind(Last(tracks').warnings, "ExtraAfterEndOfTrack") <= 1]_vars

\* End-of-Track decoded with a Note On after it in the chunk: one warning, the Note
\* On not counted, the chunk read to its end
C14_Witness ==
    /\ pc = "scan"
    /\ tr.has_end_of_track
    /\ Len(local) = 8
    /\ SubSeq(local, 5, 8) = NoteOn
    /\ lpos = 8
    /\ CountKind(tr.warnings, "ExtraAfterEndOfTrack") = 1
    /\ tr.stats.meta = 1
    /\ tr.stats.note_on = 0

(***************************************************************************)
(* C15. Every track report has a length-mismatch warning if and only if    *)
(* its length_parsed differs from its length_declared: one such warning    *)
(* then, none otherwise, and never a length-mismatch error.  The step that *)
(* completes a scanned track adds nothing to its errors but a missing      *)
(* End-of-Track, and places the warning at the end of the chunk.           *)
(***************************************************************************)
MismatchAsWarning(r) ==
    /\ CountKind(r.warnings, "LengthMismatch") =
           (IF r.length_parsed # r.length_declared THEN 1 ELSE 0)
    /\ ~HasKind(r.errors, "LengthMismatch")

C15_LengthMismatchWarning ==
    /\ [](\A i \in DOMAIN tracks : MismatchAsWarning(tracks[i]))
    /\ [][(pc = "scan" /\ TrackAppended) =>
              /\ Last(tracks').length_parsed = lpos
              /\ Last(tracks').length_declared = tr.length_declared
              /\ Last(tracks').warnings =
                     (IF lpos # tr.length_declared
                      THEN Append(tr.warnings, Diag("LengthMismatch", end))
                      ELSE tr.warnings)
              /\ Last(tracks').errors \in
                     {tr.errors, Append(tr.errors, Diag("MissingEndOfTrack", end - 1))}]_vars

\* a report with the warning (its scan stopped early) after one without it
C15_Witness ==
    /\ Returned
    /\ Len(tracks) = 2
    /\ tracks[1].length_parsed = tracks[1].length_declared
    /\ tracks[1].length_declared > 0
    /\ ~HasKind(tracks[1].warnings, "LengthMismatch")
    /\ tracks[2].length_parsed < tracks[2].length_declared
    /\ CountKind(tracks[2].warnings, "LengthMismatch") = 1

(***************************************************************************)
(* C16. Validation terminates for every input buffer.  Each iteration of   *)
(* the scan loop moves the cursor of the track forward by at least one     *)
(* byte, never past the end of the chunk, or leaves the loop; each track   *)
(* attempt, also one that reads no byte of the file, adds one to the track *)
(* counter, which never exceeds the declared track count.  So a measure    *)
(* of the work left is non-negative and decreases at every step: no run    *)
(* takes more steps than the measure of its first state.                   *)
(***************************************************************************)
\* more than the steps one track attempt can take
TrackWeight == 2 * Len(data) + 4

\* the work left: track attempts, bytes of the current chunk, the pending break
Measure ==
    CASE pc = "done" -> 0
      [] pc = "tracks" -> 1 + (header.num_tracks - t) * TrackWeight
      [] pc = "scan" -> (header.num_tracks - t - 1) * TrackWeight + 2
                            + 2 * (Len(local) - lpos) + (IF brk THEN 0 ELSE 1)
      [] pc = "start" -> 2 + 65535 * TrackWeight

C16_Terminates ==
    /\ [][/\ Measure' < Measure
          /\ Measure' >= 0
          /\ Scanning => /\ (lpos' > lpos \/ brk')
                         /\ lpos' >= lpos
                         /\ lpos' <= Len(local)
          /\ pc = "tracks" /\ pc' # "done" => pc' = "scan" \/ (TrackAppended /\ t' = t + 1)
          /\ TrackAppended => t' = t + 1 /\ t' <= header.num_tracks /\ Len(tracks') = t']_vars

\* under FairSpec, where a possible step is eventually taken, every run returns
C16_Returns == <>Returned

\* two track attempts that read no byte of the file (the chunk is cut inside its
\* tag), ended by the declared track count
C16_Witness ==
    /\ Returned
    /\ header # NoHeader
    /\ header.num_tracks = 2
    /\ Len(tracks) = 2
    /\ pos = 14
    /\ Len(data) = 16
    /\ \A i \in 1..2 : HasKind(tracks[i].errors, "Unexpected") /\ tracks[i].length_parsed = 0

(***************************************************************************)
(* C17. In every track report length_parsed <= length_declared, and the    *)
(* two differ only in a report with at least one error: a report without   *)
(* errors has length_parsed = length_declared.  The bytes after            *)
(* End-of-Track and a last delta-time without an event count as parsed.    *)
(***************************************************************************)
ParsedWithinDeclared(r) ==
    /\ r.length_parsed <= r.length_declared
    /\ r.length_parsed # r.length_declared => r.errors # <<>>
    /\ r.errors = <<>> => r.length_parsed = r.length_declared

C17_ParsedWithinDeclared ==
    /\ [](\A i \in DOMAIN tracks : ParsedWithinDeclared(tracks[i]))
    /\ [][/\ (EndOfTrackAtCursor /\ MetaEnd < Len(local)) => lpos' = Len(local)
          /\ (Scanning /\ CursorDelta.ok /\ CursorDelta.pos = Len(local)) =>
                 /\ lpos' = Len(local)
                 /\ tr'.errors = tr.errors
          /\ (pc = "scan" /\ TrackAppended) => Last(tracks').length_parsed = lpos]_vars

\* a report without errors whose chunk holds a Note On after End-of-Track
C17_Witness ==
    /\ Returned
    /\ Len(tracks) = 1
    /\ tracks[1].errors = <<>>
    /\ HasKind(tracks[1].warnings, "ExtraAfterEndOfTrack")
    /\ tracks[1].length_parsed = 8
    /\ tracks[1].length_declared = 8
    /\ SubSeq(data, 27, 30) = NoteOn

\* a report whose scan ended on a last delta-time without an event: the delta-time
\* counts as parsed, and End-of-Track is missing
C17_WitnessTrailingDelta ==
    /\ Returned
    /\ Len(tracks) = 1
    /\ tracks[1].length_parsed = tracks[1].length_declared
    /\ tracks[1].length_declared = 1
    /\ tracks[1].errors = <<Diag("MissingEndOfTrack", Len(data) - 1)>>

====
